---- MODULE Spec2Model ----
(***************************************************************************)
(* Model of mapproxy/cache/s3.py: the S3 tile cache backend (S3Cache) and  *)
(* the remote bucket it talks to.  One backend instance is shared by the   *)
(* request threads of a host (Clients); every thread works on its own      *)
(* short-lived Tile.  A handler is a sequence of steps, one step per       *)
(* remote request: the step that issues the request also runs all local    *)
(* code up to the next request or to the return.                           *)
(***************************************************************************)
EXTENDS Integers, Sequences, FiniteSets, TLC

\* ---------------------------------------------------------------- bounds
\* Total number of handler calls issued in one behaviour.
MaxCalls == 4

\* ------------------------------------------------------------ value sets
Clients == {"a", "b"}

\* The request thread of a host that serves one request at a time.
Worker == {"a"}

\* Python's None, where a tuple or a byte string is expected.
None == <<>>

\* Python's None, where a name is expected.
NoName == "None"

\* Python's None, where a number is expected.
NoNumber == -1

\* Tile coordinates (x, y, z).
Coords == {<<0, 0, 0>>, <<1, 0, 1>>}

\* Image bodies (byte strings).
Bodies == {<<137>>, <<137, 80>>}

\* Marker of a key that has no object in the bucket.
Absent == <<>>

FileExts == {"png", "jpeg", "tiff"}

\* Credential profiles a caller may pass to the constructor.
ProfileNames == {NoName, "seed"}

\* Bucket names a caller may pass; only those of RemoteBuckets exist.
BucketNames == {"mapproxy", "nobucket"}
RemoteBuckets == {"mapproxy"}

\* What the remote end does with one request: it answers it, refuses it
\* (an S3 error response other than 404) or the transport fails.
Faults == {"ok", "denied", "neterr"}

\* Faults of the bucket lookup: additionally an S3 error response whose
\* error code is neither NoSuchBucket nor AccessDenied.
BucketFaults == Faults \cup {"s3other"}

\* time.time() of the run.
Now == 1

VARIABLES
    cache,   \* the S3Cache instance, None before construction succeeded
    ctor,    \* the last constructor call: its arguments and what it raised
    bucket,  \* the remote bucket: key -> body, or Absent
    tile,    \* tile[p]: the Tile object client p works on
    call,    \* call[p]: client p's current handler call
    hist,    \* hist[key]: the last store or remove completed on key, and
             \* the bytes of the stored tile
    ncalls   \* number of handler calls issued so far

vars == <<cache, ctor, bucket, tile, call, hist, ncalls>>

\* ------------------------------------------------------------------ Tile
\* mapproxy.cache.tile.Tile.__init__
Tile(coord, source) ==
    [coord |-> coord, source |-> source, stored |-> FALSE,
     timestamp |-> NoNumber, size |-> NoNumber]

\* Tile.is_missing: a tile without data, unless it has no coordinate.
is_missing(t) ==
    IF t.coord = None THEN FALSE ELSE t.source = None

\* FileCache.tile_location with the 'tms' layout: cache_dir/z/x/y.ext
tile_location(t, file_ext) ==
    <<"cache_dir", t.coord[3], t.coord[1], t.coord[2], file_ext>>

AllKeys ==
    {tile_location(Tile(c, None), e) : c \in Coords, e \in FileExts}

\* The tiles a caller hands to a handler.
FreshTiles ==
    {Tile(c, s) : c \in Coords \cup {None}, s \in Bodies \cup {None}}

\* ------------------------------------------------------------ the remote
\* Key.exists(): a HEAD request on the key.
RemoteExists(key) == bucket[key] # Absent

\* HTTP status of a GET on the key.
RemoteGetStatus(key, fault) ==
    CASE fault = "neterr" -> "neterr"
      [] fault = "denied" -> "403"
      [] bucket[key] = Absent -> "404"
      [] OTHER -> "200"

\* ----------------------------------------------------------- construction
\* connect(profile_name): boto.connect_s3 with that profile.
connect(profile_name) ==
    [profile_name |-> profile_name, host |-> "s3.eu-central-1.amazonaws.com"]

\* No connection.
NoConn == [profile_name |-> NoName, host |-> NoName]

\* No S3Cache instance.
NoCache == [bucket |-> NoName, file_ext |-> NoName, conn |-> NoConn]

\* ------------------------------------------------------------ call record
NoCall ==
    [op |-> "none", pc |-> "idle", ret |-> "none", key |-> None,
     handle |-> "none", buf |-> "none", content_type |-> "unset",
     reqs |-> <<>>, resp |-> "none", with_metadata |-> FALSE]

NewCall(op) == [NoCall EXCEPT !.op = op]

CanCall(p) ==
    /\ cache # NoCache
    /\ call[p].pc \in {"idle", "done"}
    /\ ncalls < MaxCalls

\* A call is made on the client's current tile or on a fresh one.
TilesFor(p) == {tile[p]} \cup FreshTiles

\* Mutant: every handle is given the same key.
OpenKey_fixed(c, location) ==
    [c EXCEPT !.handle = "open", !.key = <<"cache_dir", 0, 0, 0, "png">>]

\* boto.s3.key.Key(self.bucket); k.key = location
OpenKey(c, location) == [c EXCEPT !.handle = "open", !.key = location]

Return(c, value) == [c EXCEPT !.pc = "done", !.ret = value]

\* Mutant: the failure of a request is swallowed and the handler returns.
Raised_swallowed(fault) == "None"

\* The exception a failed request raises.
Raised(fault) == IF fault = "denied" THEN "S3ResponseError" ELSE "Error"

Request(c, name, fault) ==
    [c EXCEPT !.reqs = Append(@, name), !.resp = fault]

\* S3Cache.__init__: connect, then resolve the bucket.
Construct(file_ext, bucket_name, profile_name, connect_fault, fault) ==
    /\ cache = NoCache
    /\ LET conn == IF connect_fault = "ok" THEN connect(NoName) ELSE NoConn
           error_code ==
               CASE connect_fault # "ok" -> "connect"
                 [] fault = "denied" -> "AccessDenied"
                 [] fault = "s3other" -> "InternalError"
                 [] fault = "neterr" -> "neterr"
                 [] bucket_name \notin RemoteBuckets -> "NoSuchBucket"
                 [] OTHER -> "ok"
           raised ==
               CASE error_code = "ok" -> "none"
                 [] error_code = "connect" -> "S3ConnectionError: Error during connection"
                 [] error_code = "NoSuchBucket" -> "S3ConnectionError: No such bucket"
                 [] error_code = "AccessDenied" -> "S3ConnectionError: Access denied"
                 [] error_code = "neterr" -> "Error"
                 [] OTHER -> "S3ConnectionError: Unknown error"
       IN  /\ ctor' = [file_ext |-> file_ext, bucket_name |-> bucket_name,
                       profile_name |-> profile_name, conn |-> conn,
                       error_code |-> error_code, raised |-> raised]
           /\ cache' = IF error_code = "ok"
                       THEN [bucket |-> bucket_name, file_ext |-> file_ext,
                             conn |-> conn]
                       ELSE NoCache
    /\ UNCHANGED <<bucket, tile, call, hist, ncalls>>

\* ------------------------------------------------------------- is_cached
\* Mutant: the two branches of is_cached swapped.
is_cached_result_swapped(exists) == IF exists THEN "False" ELSE "True"

\* Mutant: a miss is raised as an error.
is_cached_result_raises(exists) == IF exists THEN "True" ELSE "S3ResponseError"

\* What is_cached returns for the answer of k.exists().
is_cached_result(exists) == IF exists THEN "True" ELSE "False"

\* Mutant: is_cached asks the store about every tile.
is_cached_asks_always(t) == TRUE

\* if tile.is_missing(): the tiles is_cached asks the store about.
is_cached_asks(t) == is_missing(t)

\* self.tile_location(tile) fails on a tile without a coordinate.
NoLocation(t) == t.coord = None

is_cached(p, t) ==
    /\ CanCall(p)
    /\ tile' = [tile EXCEPT ![p] = t]
    /\ ncalls' = ncalls + 1
    /\ call' = [call EXCEPT ![p] =
          IF ~is_cached_asks(t)
          THEN Return(NewCall("is_cached"), "True")
          ELSE IF NoLocation(t)
          THEN Return(NewCall("is_cached"), "Error")
          ELSE [OpenKey(NewCall("is_cached"),
                        tile_location(t, cache.file_ext)) EXCEPT !.pc = "exists"]]
    /\ UNCHANGED <<cache, ctor, bucket, hist>>

is_cached_exists(p, fault) ==
    /\ call[p].op = "is_cached"
    /\ call[p].pc = "exists"
    /\ LET c == Request(call[p], "exists", fault)
       IN  call' = [call EXCEPT ![p] =
             IF fault # "ok" THEN Return(c, Raised(fault))
             ELSE Return(c, is_cached_result(RemoteExists(c.key)))]
    /\ UNCHANGED <<cache, ctor, bucket, tile, hist, ncalls>>

\* -------------------------------------------------------------- load_tile
\* Mutant: the downloaded bytes do not reach the buffer that is wrapped.
get_contents_to_file_lost(key, tile_data) == tile_data

\* k.get_contents_to_file(tile_data): the object's bytes are appended to the
\* file.
get_contents_to_file(key, tile_data) == tile_data \o bucket[key]

\* ImageSource(tile_data): the source holds the bytes of the buffer.
ImageSource(tile_data) == tile_data

\* Mutant: only a refused request is taken for a miss.
load_tile_caught_denied(status) == status = "403"

\* except boto.exception.S3ResponseError: the responses load_tile takes
\* for a miss.
load_tile_caught(status) == status \in {"403", "404"}

\* Mutant: load_tile only looks at the source of the tile.
load_tile_fast_path_source(t) == t.source # None

\* if not tile.is_missing(): return True
load_tile_fast_path(t) == ~is_missing(t)

load_tile(p, t, with_metadata) ==
    /\ CanCall(p)
    /\ tile' = [tile EXCEPT ![p] = t]
    /\ ncalls' = ncalls + 1
    /\ LET c == [NewCall("load_tile") EXCEPT !.with_metadata = with_metadata]
       IN  call' = [call EXCEPT ![p] =
             IF load_tile_fast_path(t)
             THEN Return(c, "True")
             ELSE IF NoLocation(t)
             THEN Return(c, "Error")
             ELSE [OpenKey(c, tile_location(t, cache.file_ext))
                      EXCEPT !.pc = "get"]]
    /\ UNCHANGED <<cache, ctor, bucket, hist>>

load_tile_get(p, fault) ==
    /\ call[p].op = "load_tile"
    /\ call[p].pc = "get"
    /\ LET c == Request(call[p], "get", fault)
           status == RemoteGetStatus(c.key, fault)
           tile_data == <<>>
       IN  CASE status = "200" ->
                  /\ tile' = [tile EXCEPT ![p].source =
                         ImageSource(get_contents_to_file(c.key, tile_data))]
                  /\ call' = [call EXCEPT ![p] =
                         Return([c EXCEPT !.handle = "closed"], "True")]
             [] load_tile_caught(status) ->
                  /\ call' = [call EXCEPT ![p] =
                         Return([c EXCEPT !.handle = "closed"], "False")]
                  /\ UNCHANGED tile
             [] OTHER ->
                  /\ call' = [call EXCEPT ![p] = Return(c, Raised(fault))]
                  /\ UNCHANGED tile
    /\ UNCHANGED <<cache, ctor, bucket, hist, ncalls>>

\* ------------------------------------------------------------ remove_tile
\* Mutant: the delete is issued whatever the existence check says.
remove_tile_deletes_always(exists) == TRUE

\* if k.exists(): k.delete()
remove_tile_deletes(exists) == exists

remove_tile(p, t) ==
    /\ CanCall(p)
    /\ t.coord # None
    /\ tile' = [tile EXCEPT ![p] = t]
    /\ ncalls' = ncalls + 1
    /\ call' = [call EXCEPT ![p] =
          [OpenKey(NewCall("remove_tile"), tile_location(t, cache.file_ext))
              EXCEPT !.pc = "exists"]]
    /\ UNCHANGED <<cache, ctor, bucket, hist>>

remove_tile_exists(p, fault) ==
    /\ call[p].op = "remove_tile"
    /\ call[p].pc = "exists"
    /\ LET c == Request(call[p], "exists", fault)
       IN  IF fault # "ok"
           THEN /\ call' = [call EXCEPT ![p] = Return(c, Raised(fault))]
                /\ UNCHANGED hist
           ELSE IF remove_tile_deletes(RemoteExists(c.key))
           THEN /\ call' = [call EXCEPT ![p] = [c EXCEPT !.pc = "delete"]]
                /\ UNCHANGED hist
           ELSE /\ call' = [call EXCEPT ![p] =
                       Return([c EXCEPT !.handle = "closed"], "None")]
                /\ hist' = [hist EXCEPT ![c.key] = [op |-> "remove", body |-> Absent]]
    /\ UNCHANGED <<cache, ctor, bucket, tile, ncalls>>

remove_tile_delete(p, fault) ==
    /\ call[p].op = "remove_tile"
    /\ call[p].pc = "delete"
    /\ LET c == Request(call[p], "delete", fault)
       IN  IF fault # "ok"
           THEN /\ call' = [call EXCEPT ![p] = Return(c, Raised(fault))]
                /\ UNCHANGED <<bucket, hist>>
           ELSE /\ bucket' = [bucket EXCEPT ![c.key] = Absent]
                /\ call' = [call EXCEPT ![p] =
                       Return([c EXCEPT !.handle = "closed"], "None")]
                /\ hist' = [hist EXCEPT ![c.key] = [op |-> "remove", body |-> Absent]]
    /\ UNCHANGED <<cache, ctor, tile, ncalls>>

\* ------------------------------------------------------------- store_tile
\* tile_buffer(tile), entering the block: the source as a seekable buffer,
\* rewound.
tile_buffer(t) == [data |-> t.source, pos |-> 0]

\* tile_buffer(tile), leaving the block normally: size and timestamp are
\* filled in and the tile is marked stored.
tile_buffer_exit(t, buf) ==
    [t EXCEPT !.size = buf.pos,
              !.timestamp = IF @ \in {NoNumber, 0} THEN Now ELSE @,
              !.stored = TRUE]

\* Mutant: the upload starts behind the first byte of the buffer.
set_contents_from_file_tail(buf) == SubSeq(buf.data, buf.pos + 2, Len(buf.data))

\* k.set_contents_from_file(buf): the body is what the file holds from its
\* current position on.
set_contents_from_file(buf) == SubSeq(buf.data, buf.pos + 1, Len(buf.data))

\* Mutant: only png gets a content type.
content_type_png_only(file_ext) ==
    IF file_ext = "png" THEN "image/png" ELSE "unset"

\* The content type store_tile sets on the key.
content_type(file_ext) ==
    IF file_ext \in {"jpeg", "png"} THEN "image/" \o file_ext ELSE "unset"

\* Mutant: the stored check is dropped.
already_stored_ignored(t) == FALSE

\* if tile.stored: return
already_stored(t) == t.stored

\* Mutant: the upload happens outside the block, whose end is never run.
with_tile_buffer_skipped(t, buf, fault) == t

\* Mutant: the end of the block runs on the failure path too.
with_tile_buffer_finally(t, buf, fault) == tile_buffer_exit(t, buf)

\* with tile_buffer(tile) as buf: the tile as the block leaves it, normally
\* after the upload or by the exception of a failed upload.
with_tile_buffer(t, buf, fault) ==
    IF fault = "ok" THEN tile_buffer_exit(t, buf) ELSE t

\* Mutant: the buffer is only given back after a successful upload.
with_exit_on_success(fault) == IF fault = "ok" THEN "exited" ELSE "entered"

\* with tile_buffer(tile) as buf: the block is left, and the buffer given
\* back, whether the upload returns or raises.
with_exit(fault) == "exited"

store_tile(p, t) ==
    /\ CanCall(p)
    /\ t.coord # None
    /\ t.source # None
    /\ tile' = [tile EXCEPT ![p] = t]
    /\ ncalls' = ncalls + 1
    /\ call' = [call EXCEPT ![p] =
          IF already_stored(t)
          THEN Return(NewCall("store_tile"), "None")
          ELSE [OpenKey(NewCall("store_tile"), tile_location(t, cache.file_ext))
                   EXCEPT !.content_type = content_type(cache.file_ext),
                          !.buf = "entered",
                          !.pc = "put"]]
    /\ UNCHANGED <<cache, ctor, bucket, hist>>

store_tile_put(p, fault) ==
    /\ call[p].op = "store_tile"
    /\ call[p].pc = "put"
    /\ LET c == [Request(call[p], "put", fault) EXCEPT !.buf = with_exit(fault)]
           buf == tile_buffer(tile[p])
           body == set_contents_from_file(buf)
           read == [buf EXCEPT !.pos = Len(buf.data)]
       IN  /\ tile' = [tile EXCEPT ![p] = with_tile_buffer(@, read, fault)]
           /\ IF fault # "ok"
              THEN /\ call' = [call EXCEPT ![p] = Return(c, Raised(fault))]
                   /\ UNCHANGED <<bucket, hist>>
              ELSE /\ bucket' = [bucket EXCEPT ![c.key] = body]
                   /\ call' = [call EXCEPT ![p] =
                          Return([c EXCEPT !.handle = "closed"], "None")]
                   /\ hist' = [hist EXCEPT ![c.key] =
                          [op |-> "store", body |-> tile[p].source]]
    /\ UNCHANGED <<cache, ctor, ncalls>>

\* ----------------------------------------------------- load_tile_metadata
load_tile_metadata(p, t) ==
    /\ CanCall(p)
    /\ ncalls' = ncalls + 1
    /\ tile' = [tile EXCEPT ![p] = [t EXCEPT !.timestamp = 0, !.size = 0]]
    /\ call' = [call EXCEPT ![p] = Return(NewCall("load_tile_metadata"), "None")]
    /\ UNCHANGED <<cache, ctor, bucket, hist>>

Init ==
    /\ cache = NoCache
    /\ ctor = [file_ext |-> NoName, bucket_name |-> NoName, profile_name |-> NoName,
               conn |-> NoConn, error_code |-> "none", raised |-> "none"]
    /\ bucket = [k \in AllKeys |-> Absent]
    /\ tile = [p \in Clients |-> Tile(None, None)]
    /\ call = [p \in Clients |-> NoCall]
    /\ hist = [k \in AllKeys |-> [op |-> "none", body |-> Absent]]
    /\ ncalls = 0

Next ==
    \/ \E e \in FileExts, b \in BucketNames, n \in ProfileNames :
          \E cf \in {"ok", "error"}, f \in BucketFaults : Construct(e, b, n, cf, f)
    \/ \E p \in Worker : \E t \in TilesFor(p) : is_cached(p, t)
    \/ \E p \in Worker, f \in Faults : is_cached_exists(p, f)
    \/ \E p \in Worker : \E t \in TilesFor(p), m \in BOOLEAN : load_tile(p, t, m)
    \/ \E p \in Worker, f \in Faults : load_tile_get(p, f)
    \/ \E p \in Worker : \E t \in TilesFor(p) : remove_tile(p, t)
    \/ \E p \in Worker, f \in Faults : remove_tile_exists(p, f)
    \/ \E p \in Worker, f \in Faults : remove_tile_delete(p, f)
    \/ \E p \in Worker : \E t \in TilesFor(p) : store_tile(p, t)
    \/ \E p \in Worker, f \in Faults : store_tile_put(p, f)
    \/ \E p \in Worker : \E t \in TilesFor(p) : load_tile_metadata(p, t)

Spec == Init /\ [][Next]_vars

\* ------------------------------------------------- concurrent request threads
\* The state after S3Cache('cache_dir', 'png') was constructed with the
\* default bucket and profile.
ConcInit ==
    /\ cache = [bucket |-> "mapproxy", file_ext |-> "png",
                conn |-> connect(NoName)]
    /\ ctor = [file_ext |-> "png", bucket_name |-> "mapproxy",
               profile_name |-> NoName, conn |-> connect(NoName),
               error_code |-> "ok", raised |-> "none"]
    /\ bucket = [k \in AllKeys |-> Absent]
    /\ tile = [p \in Clients |-> Tile(None, None)]
    /\ call = [p \in Clients |-> NoCall]
    /\ hist = [k \in AllKeys |-> [op |-> "none", body |-> Absent]]
    /\ ncalls = 0

\* The threads of a host store and remove tiles through the one instance,
\* their requests interleaved in any order.
ConcNext ==
    \/ \E p \in Clients : \E t \in TilesFor(p) : store_tile(p, t)
    \/ \E p \in Clients, f \in Faults : store_tile_put(p, f)
    \/ \E p \in Clients : \E t \in TilesFor(p) : remove_tile(p, t)
    \/ \E p \in Clients, f \in Faults : remove_tile_exists(p, f)
    \/ \E p \in Clients, f \in Faults : remove_tile_delete(p, f)

ConcSpec == ConcInit /\ [][ConcNext]_vars

\* ================================================================ claims
Raises == {"S3ResponseError", "Error"}

Done(p, op) == call[p].op = op /\ call[p].pc = "done"

\* The step in which client p begins a call of op.
Begins(p, op) ==
    /\ call[p].pc \in {"idle", "done"}
    /\ ncalls' = ncalls + 1
    /\ call'[p].op = op

\* The step in which client p's call of op gets the remote's reply to the
\* request it has pending at pc.
Replied(p, op, pc) ==
    /\ call[p].op = op
    /\ call[p].pc = pc
    /\ call'[p].pc # pc

\* The key of the tile client p works on.
KeyOf(p) == tile_location(tile[p], cache.file_ext)

\* C1: a load_tile on a tile with no source whose remote get failed for a
\* reason other than "no such key" (refused, or transport failure) ends by
\* raising, never by returning False.
C1_LoadErrorPropagates ==
    \A p \in Clients :
        (Done(p, "load_tile") /\ call[p].reqs = <<"get">>
            /\ call[p].resp \in {"denied", "neterr"})
        => call[p].ret \in Raises

\* C2: when the last write completed on a key is a store_tile of a tile
\* holding bytes b, a load_tile of a source-less tile with that key whose get
\* is answered returns True and leaves exactly b in the tile's source.
C2_RoundTrip ==
    [][\A p \in Clients :
        (Replied(p, "load_tile", "get") /\ call'[p].resp = "ok"
            /\ hist[call[p].key].op = "store")
        => /\ call'[p].ret = "True"
           /\ tile'[p].source = hist[call[p].key].body
           /\ tile'[p].source \in Bodies]_vars

C2_Witness ==
    \E p \in Clients :
        /\ Done(p, "load_tile") /\ call[p].reqs = <<"get">>
        /\ call[p].ret = "True"
        /\ ~tile[p].stored
        /\ hist[call[p].key] = [op |-> "store", body |-> <<137, 80>>]
        /\ tile[p].source = <<137, 80>>

\* C3 as stated: is_cached on a tile with a coordinate returns True iff the
\* last store or remove completed on that coordinate's key was a store; so
\* False on the empty store and after a remove, whatever tile is asked about.
C3_IsCachedIffLastStore ==
    \A p \in Clients :
        (Done(p, "is_cached") /\ tile[p].coord # None
            /\ call[p].ret \in {"True", "False"})
        => (call[p].ret = "True" <=> hist[KeyOf(p)].op = "store")

\* C3 amended: the equivalence holds for a tile that carries no source; for a
\* tile that carries a source (as the tile just stored and removed does)
\* is_cached returns True whatever the store holds.
C3_IsCachedAmended ==
    \A p \in Clients :
        (Done(p, "is_cached") /\ tile[p].coord # None
            /\ call[p].ret \in {"True", "False"})
        => IF tile[p].source = None
           THEN (call[p].ret = "True" <=> hist[KeyOf(p)].op = "store")
           ELSE call[p].ret = "True" /\ call[p].reqs = <<>>

\* is_cached was asked of the tile that was just stored and removed.
C3_Witness ==
    \E p \in Clients :
        /\ Done(p, "is_cached") /\ tile[p].coord # None
        /\ tile[p].stored
        /\ call[p].ret = "True"
        /\ hist[KeyOf(p)].op = "remove"
        /\ bucket[KeyOf(p)] = Absent

\* C4: a load_tile of a source-less tile whose key has no object, the get
\* being answered, returns False without raising, leaves the source unset
\* and the bucket unchanged.
C4_CleanMiss ==
    [][\A p \in Clients :
        (Replied(p, "load_tile", "get") /\ call'[p].resp = "ok"
            /\ bucket[call[p].key] = Absent)
        => /\ call'[p].pc = "done"
           /\ call'[p].ret = "False"
           /\ tile'[p].source = None
           /\ bucket' = bucket]_vars

C4_Witness ==
    \E p \in Clients :
        /\ Done(p, "load_tile") /\ call[p].reqs = <<"get">>
        /\ call[p].resp = "ok"
        /\ call[p].ret = "False"
        /\ bucket[call[p].key] = Absent
        /\ \E k \in AllKeys : bucket[k] # Absent
\* C5: when the upload of a store_tile on a tile not marked stored succeeds
\* and the call returns, the tile is marked stored; a store_tile that follows
\* on the same tile returns at once and issues no upload.
C5_StoredAfterUpload ==
    [][\A p \in Clients :
        /\ (Replied(p, "store_tile", "put") /\ call'[p].ret = "None")
           => tile'[p].stored
        /\ (Done(p, "store_tile") /\ call[p].reqs = <<"put">>
               /\ call[p].ret = "None"
               /\ Begins(p, "store_tile") /\ tile'[p] = tile[p])
           => call'[p].pc = "done" /\ call'[p].reqs = <<>>]_vars

C5_Witness ==
    \E p \in Clients :
        /\ Done(p, "store_tile")
        /\ call[p].reqs = <<>> /\ call[p].ret = "None"
        /\ tile[p].stored
        /\ bucket[KeyOf(p)] = tile[p].source

\* C6: when the upload of a store_tile fails, the call ends by raising, the
\* tile is still not marked stored and the bucket is unchanged; and a tile
\* only ever becomes marked stored in a step that uploaded its bytes.
C6_FailedUploadNotStored ==
    [][\A p \in Clients :
        /\ (Replied(p, "store_tile", "put") /\ call'[p].resp # "ok")
           => /\ call'[p].pc = "done"
              /\ call'[p].ret \in Raises
              /\ ~tile'[p].stored
              /\ bucket' = bucket
        /\ (~tile[p].stored /\ tile'[p].stored)
           => /\ Replied(p, "store_tile", "put")
              /\ call'[p].resp = "ok"
              /\ bucket'[call'[p].key] = tile'[p].source]_vars

C6_Witness ==
    \E p \in Clients :
        /\ Done(p, "store_tile") /\ call[p].reqs = <<"put">>
        /\ call[p].resp \in {"denied", "neterr"}
        /\ call[p].ret \in Raises
        /\ ~tile[p].stored
        /\ bucket[call[p].key] # tile[p].source

\* C7: a store_tile on a tile already marked stored opens no key handle,
\* issues no request, returns at once and leaves the tile and the bucket
\* unchanged.
C7_StoreIdempotent ==
    [][\A p \in Clients :
        (Begins(p, "store_tile") /\ tile'[p].stored)
        => /\ call'[p].pc = "done"
           /\ call'[p].ret = "None"
           /\ call'[p].handle = "none"
           /\ call'[p].reqs = <<>>
           /\ tile'[p] = tile[p]
           /\ bucket' = bucket]_vars

C7_Witness ==
    \E p \in Clients :
        /\ Done(p, "store_tile")
        /\ call[p].reqs = <<>> /\ call[p].handle = "none"
        /\ tile[p].stored
        /\ bucket[KeyOf(p)] = Absent

\* C8: a remove_tile whose existence check finds the key absent returns
\* normally without a delete and leaves the bucket unchanged; a remove_tile
\* that returned normally leaves its key absent and never changes another
\* key, so that a second remove_tile in a row changes nothing.
C8_RemoveIdempotent ==
    [][\A p \in Clients :
        /\ (Replied(p, "remove_tile", "exists") /\ call'[p].resp = "ok"
               /\ bucket[call[p].key] = Absent)
           => /\ call'[p].pc = "done"
              /\ call'[p].ret = "None"
              /\ call'[p].reqs = <<"exists">>
              /\ bucket' = bucket
        /\ (call[p].op = "remove_tile" /\ call'[p].op = "remove_tile")
           => \A k \in AllKeys \ {call'[p].key} : bucket'[k] = bucket[k]
        /\ (call'[p].op = "remove_tile" /\ call'[p].pc = "done"
               /\ call'[p].ret = "None")
           => bucket'[call'[p].key] = Absent
        /\ (Done(p, "remove_tile") /\ call[p].ret = "None"
               /\ call'[p].op = "remove_tile" /\ call'[p].key = call[p].key)
           => bucket' = bucket]_vars

\* A second remove_tile in a row has returned, the first one having deleted
\* the object, while another key still holds its object.
C8_Witness ==
    \E p \in Clients :
        /\ Done(p, "remove_tile") /\ call[p].ret = "None"
        /\ call[p].reqs = <<"exists">>
        /\ hist[call[p].key].op = "remove"
        /\ \E k \in AllKeys : bucket[k] # Absent
        /\ ncalls >= 4

\* C9: a constructor call that failed to resolve the bucket raised an
\* S3ConnectionError of one of the three kinds and produced no instance;
\* every instance holds a bucket that exists.
C9_CtorFailureClassified ==
    /\ ctor.error_code \notin {"none", "ok", "connect"}
       => /\ ctor.raised \in {"S3ConnectionError: No such bucket",
                              "S3ConnectionError: Access denied",
                              "S3ConnectionError: Unknown error"}
          /\ cache = NoCache
    /\ cache # NoCache => cache.bucket \in RemoteBuckets

\* C10: the connection of the instance was opened with the profile_name
\* passed to the constructor (the default credentials when it was None).
C10_ConnectionUsesProfile ==
    cache # NoCache => cache.conn.profile_name = ctor.profile_name
\* C11: a load_tile on a tile with neither coordinate nor source derives no
\* key, opens no handle, issues no request, does not raise and leaves the
\* tile and the bucket unchanged.
C11_LoadNoCoordNoOp ==
    [][\A p \in Clients :
        (Begins(p, "load_tile") /\ tile'[p].coord = None
            /\ tile'[p].source = None)
        => /\ call'[p].pc = "done"
           /\ call'[p].ret \notin Raises
           /\ call'[p].key = None
           /\ call'[p].handle = "none"
           /\ call'[p].reqs = <<>>
           /\ tile'[p] \in TilesFor(p)
           /\ bucket' = bucket]_vars

C11_Witness ==
    \E p \in Clients :
        /\ Done(p, "load_tile")
        /\ tile[p].coord = None /\ tile[p].source = None
        /\ call[p].reqs = <<>> /\ call[p].key = None
        /\ \E k \in AllKeys : bucket[k] # Absent

\* C12: is_cached on a tile with a coordinate and no source asks the store;
\* when the existence check is answered it returns True iff the key holds an
\* object at that moment and False (no exception) otherwise, and neither the
\* bucket nor the tile changes.
C12_IsCachedExistence ==
    [][\A p \in Clients :
        /\ (Begins(p, "is_cached") /\ tile'[p].coord # None
               /\ tile'[p].source = None)
           => /\ call'[p].pc = "exists"
              /\ tile'[p] \in TilesFor(p)
              /\ bucket' = bucket
        /\ (Replied(p, "is_cached", "exists") /\ call'[p].resp = "ok")
           => /\ call'[p].pc = "done"
              /\ call'[p].ret \in {"True", "False"}
              /\ call'[p].ret = "True" <=> bucket[call[p].key] # Absent
              /\ tile' = tile
              /\ bucket' = bucket]_vars

C12_Witness ==
    \E p \in Clients :
        /\ Done(p, "is_cached") /\ call[p].reqs = <<"exists">>
        /\ call[p].resp = "ok" /\ call[p].ret = "True"
        /\ tile[p].source = None
        /\ bucket[call[p].key] \in Bodies

\* C13: is_cached and load_tile on a tile that carries a source return True
\* at once: no handle, no request, tile and bucket unchanged, whatever the
\* bucket holds.
C13_PopulatedFastPath ==
    [][\A p \in Clients : \A op \in {"is_cached", "load_tile"} :
        (Begins(p, op) /\ tile'[p].source # None)
        => /\ call'[p].pc = "done"
           /\ call'[p].ret = "True"
           /\ call'[p].handle = "none"
           /\ call'[p].reqs = <<>>
           /\ tile'[p] \in TilesFor(p)
           /\ bucket' = bucket]_vars

\* load_tile returned True for a tile whose source differs from the object
\* the bucket holds at its key.
C13_Witness ==
    \E p \in Clients :
        /\ Done(p, "load_tile") /\ call[p].ret = "True"
        /\ call[p].reqs = <<>>
        /\ tile[p].coord # None
        /\ tile[p].source \in Bodies
        /\ bucket[KeyOf(p)] \in Bodies
        /\ bucket[KeyOf(p)] # tile[p].source
\* C14: after load_tile_metadata, and after a load_tile with
\* with_metadata=True that returned True, the tile's timestamp and size are
\* 0, and no request was issued for them.
C14_MetadataPlaceholder ==
    \A p \in Clients :
        /\ Done(p, "load_tile_metadata")
           => /\ tile[p].timestamp = 0 /\ tile[p].size = 0
              /\ call[p].reqs = <<>>
        /\ (Done(p, "load_tile") /\ call[p].with_metadata
               /\ call[p].ret = "True")
           => /\ tile[p].timestamp = 0 /\ tile[p].size = 0
              /\ call[p].reqs \in {<<>>, <<"get">>}

\* C15: the key handle of every upload of store_tile carries content type
\* image/png for extension png, image/jpeg for jpeg and none for any other
\* extension.
C15_ContentType ==
    \A p \in Clients :
        (call[p].op = "store_tile"
            /\ (call[p].pc = "put" \/ call[p].reqs = <<"put">>))
        => call[p].content_type =
              CASE cache.file_ext = "png" -> "image/png"
                [] cache.file_ext = "jpeg" -> "image/jpeg"
                [] OTHER -> "unset"

C15_Witness ==
    \E p \in Clients :
        /\ Done(p, "store_tile") /\ call[p].reqs = <<"put">>
        /\ call[p].resp = "ok"
        /\ cache.file_ext = "jpeg"
        /\ call[p].content_type = "image/jpeg"

\* C16: no handler call ends with its key handle still open.
C16_HandleClosed ==
    \A p \in Clients : call[p].pc = "done" => call[p].handle # "open"

\* C20: a call issues at most the requests of one pass through its handler
\* (one exists; one get; one put; one exists then one delete), stops at the
\* first failed request, and a failed request of store_tile or remove_tile
\* ends the call by raising.
C20_NoRetry ==
    \A p \in Clients :
        /\ call[p].reqs \in
              CASE call[p].op = "is_cached" -> {<<>>, <<"exists">>}
                [] call[p].op = "load_tile" -> {<<>>, <<"get">>}
                [] call[p].op = "store_tile" -> {<<>>, <<"put">>}
                [] call[p].op = "remove_tile" ->
                      {<<>>, <<"exists">>, <<"exists", "delete">>}
                [] OTHER -> {<<>>}
        /\ call[p].resp \in {"denied", "neterr"} => call[p].pc = "done"
        /\ (call[p].op \in {"store_tile", "remove_tile"}
               /\ call[p].resp \in {"denied", "neterr"})
           => call[p].ret \in Raises

\* The delete of a remove_tile was refused: the call raised after its two
\* requests and the object is still there.
C20_Witness ==
    \E p \in Clients :
        /\ Done(p, "remove_tile")
        /\ call[p].reqs = <<"exists", "delete">>
        /\ call[p].resp = "denied"
        /\ call[p].ret = "S3ResponseError"
        /\ bucket[call[p].key] \in Bodies
\* C17: the buffer store_tile takes from tile_buffer is given back by the
\* step that ends the upload, whether it succeeded or failed, so no finished
\* call holds one; and while a thread's upload is in flight no step of
\* another thread touches its tile or its buffer.
C17_BufferScoped ==
    [][\A p \in Clients :
        /\ Replied(p, "store_tile", "put")
           => call[p].buf = "entered" /\ call'[p].buf = "exited"
        /\ call'[p].pc = "done" => call'[p].buf # "entered"
        /\ \A q \in Clients \ {p} :
              (call[p].buf = "entered" /\ call'[q] # call[q])
              => /\ tile'[p] = tile[p]
                 /\ call'[p] = call[p]]_vars

\* A failed upload has given its buffer back while the upload of another
\* thread is in flight.
C17_Witness ==
    \E p \in Clients, q \in Clients :
        /\ Done(p, "store_tile") /\ call[p].reqs = <<"put">>
        /\ call[p].resp = "neterr"
        /\ call[p].buf = "exited"
        /\ call[q].op = "store_tile" /\ call[q].pc = "put"
        /\ call[q].buf = "entered"

\* C18: under every interleaving of the requests of concurrent store_tile
\* and remove_tile calls, a key is absent or holds exactly the bytes of the
\* tile of the last upload completed on it; it is absent when a remove was
\* the last write.
C18_LastWriterWins ==
    \A k \in AllKeys :
        /\ bucket[k] = Absent \/ bucket[k] \in Bodies
        /\ bucket[k] # Absent
           => hist[k].op = "store" /\ bucket[k] = hist[k].body
        /\ hist[k].op \in {"none", "remove"} => bucket[k] = Absent

\* A remove_tile that saw the object is about to delete it while another
\* thread's upload to the same key is in flight.
C18_Witness ==
    \E p \in Clients, q \in Clients :
        /\ call[p].op = "remove_tile" /\ call[p].pc = "delete"
        /\ call[q].op = "store_tile" /\ call[q].pc = "put"
        /\ call[p].key = call[q].key
        /\ bucket[call[p].key] \in Bodies
        /\ bucket[call[p].key] # tile[q].source

\* C19: two successive calls of any of the four operations address the same
\* key iff their tiles have the same coordinate; a load_tile that follows an
\* is_cached hit on the same coordinate addresses the key of the hit, which
\* still holds the object, and an answered get returns that object.
C19_KeyDeterminism ==
    [][\A p \in Clients :
        /\ (call[p].key # None /\ call'[p].key # None)
           => (call'[p].key = call[p].key <=> tile'[p].coord = tile[p].coord)
        /\ (Done(p, "is_cached") /\ call[p].reqs = <<"exists">>
               /\ call[p].ret = "True"
               /\ Begins(p, "load_tile") /\ tile'[p].coord = tile[p].coord
               /\ tile'[p].source = None)
           => /\ call'[p].key = call[p].key
              /\ bucket'[call'[p].key] # Absent
        /\ (Replied(p, "load_tile", "get") /\ call'[p].resp = "ok"
               /\ bucket[call[p].key] # Absent)
           => tile'[p].source = bucket[call[p].key]]_vars

\* A load_tile got the object of its key while the key of the other
\* coordinate holds a different object.
C19_Witness ==
    \E p \in Clients :
        /\ Done(p, "load_tile") /\ call[p].reqs = <<"get">>
        /\ call[p].ret = "True"
        /\ call[p].key = KeyOf(p)
        /\ tile[p].source = bucket[call[p].key]
        /\ \E k \in AllKeys \ {call[p].key} :
              bucket[k] \in Bodies /\ bucket[k] # bucket[call[p].key]
====
